---- MODULE Spec2Model ----
(***************************************************************************)
(* A model of src/server.js: the Express handlers /callback, /cover-64x64, *)
(* /id-playing, /me and /get-photo, the Telegram photo handler, and the    *)
(* pure computations they contain (RGB565 packing, centre-square crop,     *)
(* parseInt of the id query parameter).                                    *)
(*                                                                         *)
(* External collaborators (Spotify, Supabase, Telegram, node-fetch, sharp) *)
(* are nondeterministic: every await either resolves with one of a small   *)
(* set of values or rejects.  sharp's resampling is a deterministic        *)
(* function of the decoded image and the extracted region.                 *)
(***************************************************************************)
EXTENDS Integers, Sequences, FiniteSets, TLC

VARIABLES
    probe,          \* the input and output of a pure computation under test
    req,            \* one record per HTTP request slot: the handler's locals
    ACCESS_TOKEN,   \* server.js:27, 0 is null, n > 0 the n-th token issued
    refreshToken,   \* whether spotifyApi holds a refresh token
    photosTable,    \* the set of rows of table 'photos'
    bot,            \* the locals of the bot.on('photo') handler
    replies         \* the texts sent with bot.sendMessage, oldest first

vars == <<probe, req, ACCESS_TOKEN, refreshToken, photosTable, bot, replies>>

(***************************************************************************)
(* Bounds of the model.                                                    *)
(***************************************************************************)
MaxDim == 100        \* largest decoded width and height tried for the crop
MaxQueryLen == 2     \* longest id query string tried
MaxPhotos == 6       \* most rows table 'photos' holds
MaxRefresh == 2      \* most access tokens the provider issues
MaxMsgs == 2         \* most photo messages the bot receives

(***************************************************************************)
(* JavaScript's integer bit operators on non-negative operands.  Every     *)
(* operand here is below 2^16, so the 32-bit wrap of << never applies.     *)
(***************************************************************************)
RECURSIVE BitAnd(_, _)
BitAnd(a, b) ==
    IF a = 0 \/ b = 0 THEN 0
    ELSE (a % 2) * (b % 2) + 2 * BitAnd(a \div 2, b \div 2)

RECURSIVE BitOr(_, _)
BitOr(a, b) ==
    IF a = 0 THEN b
    ELSE IF b = 0 THEN a
    ELSE (IF a % 2 = 1 \/ b % 2 = 1 THEN 1 ELSE 0) + 2 * BitOr(a \div 2, b \div 2)

Shl(a, n) == a * 2^n

Shr(a, n) == a \div 2^n

Mask5 == 248         \* 0b11111000
Mask6 == 252         \* 0b11111100
Dim == 64            \* the side of the output grid
Channels == 4        \* bytes per pixel of the raw RGBA buffer

\* A mis-packing that puts the red field one bit too low (<< 2 for << 3).
rgb565CoverShifted(r, g, b) ==
    BitOr(BitOr(Shl(BitAnd(b, Mask5), 8), Shl(BitAnd(r, Mask6), 2)), Shr(g, 3))

\* /cover-64x64, lines 134-136.
rgb565Cover(r, g, b) ==
    BitOr(BitOr(Shl(BitAnd(b, Mask5), 8), Shl(BitAnd(r, Mask6), 3)), Shr(g, 3))

\* /get-photo, lines 288-290.
rgb565Photo(r, g, b) ==
    BitOr(BitOr(Shl(BitAnd(b, Mask5), 8), Shl(BitAnd(r, Mask6), 3)), Shr(g, 3))

(***************************************************************************)
(* The centre-square crop of /get-photo, lines 268-270.  Math.floor of a   *)
(* non-negative quotient is integer division.                              *)
(***************************************************************************)
Min(a, b) == IF a < b THEN a ELSE b

\* A crop anchored at the top-left corner instead of centred.
CropRegionTopLeft(width, height) ==
    [size |-> Min(width, height), left |-> 0, top |-> 0]

CropRegion(width, height) ==
    LET size == Min(width, height)
    IN  [size |-> size,
         left |-> (width - size) \div 2,
         top  |-> (height - size) \div 2]

(***************************************************************************)
(* parseInt(req.query.id, 10), line 240.  A string is a tuple of           *)
(* one-character strings.  A missing parameter is undefined, which         *)
(* parseInt first converts to the string "undefined".                      *)
(***************************************************************************)
Digits == <<"0", "1", "2", "3", "4", "5", "6", "7", "8", "9">>

IsDigit(c) == \E i \in 1..10 : Digits[i] = c

DigitValue(c) == (CHOOSE i \in 1..10 : Digits[i] = c) - 1

IsWhiteSpace(c) == c = " "

RECURSIVE TrimStart(_)
TrimStart(s) ==
    IF s # <<>> /\ IsWhiteSpace(Head(s)) THEN TrimStart(Tail(s)) ELSE s

RECURSIVE DigitPrefix(_)
DigitPrefix(s) ==
    IF s # <<>> /\ IsDigit(Head(s)) THEN <<Head(s)>> \o DigitPrefix(Tail(s)) ELSE <<>>

RECURSIVE DecimalValue(_)
DecimalValue(s) ==
    IF s = <<>> THEN 0
    ELSE DecimalValue(SubSeq(s, 1, Len(s) - 1)) * 10 + DigitValue(s[Len(s)])

UndefinedAsString == <<"u", "n", "d", "e", "f", "i", "n", "e", "d">>

parseInt(s) ==
    LET t == TrimStart(s)
        negative == t # <<>> /\ Head(t) = "-"
        u == IF t # <<>> /\ Head(t) \in {"+", "-"} THEN Tail(t) ELSE t
        z == DigitPrefix(u)
    IN  IF z = <<>> THEN [nan |-> TRUE, value |-> 0]
        ELSE [nan |-> FALSE, value |-> IF negative THEN 0 - DecimalValue(z) ELSE DecimalValue(z)]

\* req.query.id: present with a string value, or missing.
QueryId(q) == IF q.present THEN q.value ELSE UndefinedAsString

\* The guard of line 241.
InvalidId(id) == id.nan \/ id.value < 0

(***************************************************************************)
(* The query of lines 247-251: the rows of 'photos' by created_at          *)
(* descending, the first LimitRows of them.  The result is a JavaScript    *)
(* array, photos[0] first; here photos[1] is photos[0] of the code.        *)
(***************************************************************************)
LimitRows == 5

RECURSIVE OrderByCreatedAsc(_)
OrderByCreatedAsc(rows) ==
    IF rows = {} THEN <<>>
    ELSE LET first == CHOOSE x \in rows : \A y \in rows : y.created_at >= x.created_at
         IN  <<first>> \o OrderByCreatedAsc(rows \ {first})

RECURSIVE OrderByCreatedDesc(_)
OrderByCreatedDesc(rows) ==
    IF rows = {} THEN <<>>
    ELSE LET first == CHOOSE x \in rows : \A y \in rows : y.created_at <= x.created_at
         IN  <<first>> \o OrderByCreatedDesc(rows \ {first})

Limit(rowSeq, n) == SubSeq(rowSeq, 1, Min(n, Len(rowSeq)))

\* The same query with ascending: true.
SelectOldestPhotos(table) == Limit(OrderByCreatedAsc(table), LimitRows)

SelectLatestPhotos(table) == Limit(OrderByCreatedDesc(table), LimitRows)

NoRow == [photo_url |-> 0, title |-> <<>>, username |-> <<>>, created_at |-> 0]

(***************************************************************************)
(* Lines 297-298: normalize("NFD") splits an accented letter into its base *)
(* letter and a combining mark, and the replace drops the marks.           *)
(***************************************************************************)
Accented == <<"á", "é", "í", "ó", "ú", "ñ">>

BaseLetter == <<"a", "e", "i", "o", "u", "n">>

RECURSIVE StripAccents(_)
StripAccents(s) ==
    IF s = <<>> THEN <<>>
    ELSE LET c == Head(s)
         IN  (IF \E i \in 1..6 : Accented[i] = c
              THEN <<BaseLetter[CHOOSE i \in 1..6 : Accented[i] = c]>>
              ELSE <<c>>) \o StripAccents(Tail(s))

(***************************************************************************)
(* Images.  The bytes a fetch delivers either decode to an image of some   *)
(* width and height or do not decode at all.  sharp(buffer).resize(64, 64) *)
(* .ensureAlpha().raw().toBuffer() yields Dim * Dim * Channels bytes, a    *)
(* deterministic function of the image and of the region extracted from    *)
(* it; the alpha byte of every pixel is 255.                               *)
(***************************************************************************)
NoImage == [kind |-> "none", width |-> 0, height |-> 0, seed |-> 0]

Garbage == [kind |-> "garbage", width |-> 0, height |-> 0, seed |-> 0]

NoRegion == [size |-> 0, left |-> 0, top |-> 0]

\* What is stored at a URL: URLs are numbered, odd ones hold landscape images.
StoredImage(url) ==
    [kind |-> "image",
     width |-> IF url % 2 = 1 THEN 100 ELSE 30 + url,
     height |-> IF url % 2 = 1 THEN 50 ELSE 90,
     seed |-> url]

\* Byte idx of the raw buffer sharp returns for the image and region.
ResizedByte(image, region, idx) ==
    IF idx % Channels = 3 THEN 255
    ELSE (image.seed * 37 + image.width + region.left * 3 + region.top * 5
            + region.size * 7 + idx * 11 + (idx \div Channels) * 5) % 256

\* The loop with the buffer index of column-major order (x * 64 + y).
PixelDataCoverTransposed(image, region) ==
    [y \in 0..(Dim - 1) |-> [x \in 0..(Dim - 1) |->
        LET idx == (x * Dim + y) * Channels
        IN  rgb565Cover(ResizedByte(image, region, idx),
                        ResizedByte(image, region, idx + 1),
                        ResizedByte(image, region, idx + 2))]]

\* Lines 124-140: pixelData of /cover-64x64, rows and columns from 0.
PixelDataCover(image, region) ==
    [y \in 0..(Dim - 1) |-> [x \in 0..(Dim - 1) |->
        LET idx == (y * Dim + x) * Channels
        IN  rgb565Cover(ResizedByte(image, region, idx),
                        ResizedByte(image, region, idx + 1),
                        ResizedByte(image, region, idx + 2))]]

\* Lines 278-294: pixelData of /get-photo.
PixelDataPhoto(image, region) ==
    [y \in 0..(Dim - 1) |-> [x \in 0..(Dim - 1) |->
        LET idx == (y * Dim + x) * Channels
        IN  rgb565Photo(ResizedByte(image, region, idx),
                        ResizedByte(image, region, idx + 1),
                        ResizedByte(image, region, idx + 2))]]

NoProbe == [kind |-> "none"]

BotIdle ==
    [pc |-> "idle", n |-> 0, caption |-> <<>>, fileName |-> 0,
     uploaded |-> FALSE, insertFailed |-> FALSE, inserted |-> FALSE,
     failedAt |-> "none"]

(***************************************************************************)
(* SpecPack: the packing applied to channel triples.  One channel ranges   *)
(* over all of 0..255 while the other two take the values around every     *)
(* field boundary.                                                         *)
(***************************************************************************)
ChannelMax == 255

Boundary == {0, 1, 3, 4, 7, 8, 127, 128, 247, 248, 251, 252, 255}

InitPack ==
    /\ \E full \in 0..ChannelMax, p \in Boundary, q \in Boundary :
         \/ probe = [kind |-> "pixel", packed |-> FALSE, r |-> full, g |-> p, b |-> q]
         \/ probe = [kind |-> "pixel", packed |-> FALSE, r |-> p, g |-> full, b |-> q]
         \/ probe = [kind |-> "pixel", packed |-> FALSE, r |-> p, g |-> q, b |-> full]
    /\ req = <<>>
    /\ ACCESS_TOKEN = 0
    /\ refreshToken = FALSE
    /\ photosTable = {}
    /\ bot = BotIdle
    /\ replies = <<>>

PackPixel ==
    /\ probe.kind = "pixel"
    /\ ~probe.packed
    /\ probe' = [probe EXCEPT !.packed = TRUE] @@
                [cover |-> rgb565Cover(probe.r, probe.g, probe.b),
                 photo |-> rgb565Photo(probe.r, probe.g, probe.b)]
    /\ UNCHANGED <<req, ACCESS_TOKEN, refreshToken, photosTable, bot, replies>>

NextPack == PackPixel

SpecPack == InitPack /\ [][NextPack]_vars

(***************************************************************************)
(* SpecCrop: the crop region of every decoded width and height.            *)
(***************************************************************************)
InitCrop ==
    /\ \E w \in 1..MaxDim, h \in 1..MaxDim :
         probe = [kind |-> "image", cropped |-> FALSE, width |-> w, height |-> h]
    /\ req = <<>>
    /\ ACCESS_TOKEN = 0
    /\ refreshToken = FALSE
    /\ photosTable = {}
    /\ bot = BotIdle
    /\ replies = <<>>

CropImage ==
    /\ probe.kind = "image"
    /\ ~probe.cropped
    /\ probe' = [probe EXCEPT !.cropped = TRUE] @@
                [region |-> CropRegion(probe.width, probe.height)]
    /\ UNCHANGED <<req, ACCESS_TOKEN, refreshToken, photosTable, bot, replies>>

NextCrop == CropImage

SpecCrop == InitCrop /\ [][NextCrop]_vars

(***************************************************************************)
(* One HTTP request: the locals of its handler, the responses it has sent, *)
(* and a record of what it has done (refreshed .. failedAt).               *)
(***************************************************************************)
NoQuery == [present |-> FALSE, value |-> <<>>]

NoPlayback ==
    [body |-> "none", is_playing |-> "undefined", item |-> "undefined", id |-> "undefined"]

NoPipeline == [image |-> NoImage, region |-> NoRegion]

NewRequest(route, q) ==
    [route |-> route, pc |-> "start", query |-> q,
     id |-> [nan |-> TRUE, value |-> 0],
     photo |-> NoRow, url |-> 0, buffer |-> NoImage, pipeline |-> NoPipeline,
     responses |-> <<>>,
     refreshed |-> FALSE, apiCalls |-> 0, dbQueries |-> 0, retrieved |-> 0 - 1,
     fetches |-> 0, delivered |-> NoImage, conversions |-> 0,
     playback |-> NoPlayback, failedAt |-> "none"]

IdleSlot == [NewRequest("none", NoQuery) EXCEPT !.pc = "idle"]

Status(s) == s.responses[Len(s.responses)].status

Body(s) == s.responses[Len(s.responses)].body

\* res.status(status).send(text) or res.status(status).json(value): the handler
\* returns or ends right after every response it sends.
Respond(s, status, type, body) ==
    [s EXCEPT !.responses = Append(@, [status |-> status, type |-> type, body |-> body]),
              !.pc = "done"]

MsgNoCode == "Error: falta el parámetro \"code\"."
MsgAuthorized == "¡Autorización exitosa! Ahora puedes usar el servidor."
MsgTokenError == "Error al obtener el token."
MsgNotPlaying == "No se está reproduciendo ninguna canción."
MsgCoverError == "Error al procesar la portada."
MsgIdPlayingError == "{\"error\":\"Error al obtener la canción actual.\"}"
MsgMeError == "Error al obtener información del usuario."
MsgInvalidId == "Error: parámetro \"id\" inválido."
MsgPhotosError == "Error al obtener las fotos."
MsgPhotoNotFound == "Foto no encontrada."
MsgRequestError == "Error al procesar la solicitud."

\* A catch block that logs the error and sends nothing.
CoverCatchSilent(s) == [s EXCEPT !.pc = "done"]

\* Lines 147-150.
CoverCatch(s) == Respond(s, 500, "text", MsgCoverError)

\* Lines 173-176.
IdPlayingCatch(s) == Respond(s, 500, "json", MsgIdPlayingError)

\* Lines 191-194.
MeCatch(s) == Respond(s, 500, "text", MsgMeError)

\* Lines 309-312.
PhotoCatch(s) == Respond(s, 500, "text", MsgRequestError)

\* Lines 94-97.
CallbackCatch(s) == Respond(s, 500, "text", MsgTokenError)

\* An exception thrown at the given stage inside the handler's try block.
Throw(s, stage) ==
    LET t == [s EXCEPT !.failedAt = stage]
    IN  CASE s.route = "cover" -> CoverCatch(t)
          [] s.route = "idPlaying" -> IdPlayingCatch(t)
          [] s.route = "me" -> MeCatch(t)
          [] s.route = "getPhoto" -> PhotoCatch(t)
          [] s.route = "callback" -> CallbackCatch(t)

\* refreshAccessTokenIfNeeded whose catch block logs and does not rethrow: the
\* handler goes on to its Spotify call.
RefreshRejectedSwallowed(s) ==
    [s EXCEPT !.failedAt = "refresh", !.pc = "api", !.apiCalls = @ + 1]

\* Lines 58-61: the refresh failed; the error is rethrown into the handler.
RefreshRejected(s) == Throw(s, "refresh")

\* A buffer variable shared by all requests in place of a local const.
StoreBufferShared(slots, r, bytes) ==
    [q \in DOMAIN slots |-> [slots[q] EXCEPT !.buffer = bytes]]

\* Lines 114 and 264: const buffer, a local of the request's own handler call.
StoreBuffer(slots, r, bytes) == [slots EXCEPT ![r].buffer = bytes]

\* JSON.stringify({ id: songId }): a property whose value is undefined is left out.
JsonId(songId) ==
    IF songId = "undefined" THEN "{}" ELSE "{\"id\":\"" \o songId \o "\"}"

(***************************************************************************)
(* /callback, lines 80-98.                                                 *)
(***************************************************************************)
StartCallback(r, hasCode) ==
    /\ req[r].pc = "idle"
    /\ req' = [req EXCEPT ![r] =
                 IF hasCode
                 THEN [NewRequest("callback", NoQuery) EXCEPT !.pc = "grant"]
                 ELSE Respond(NewRequest("callback", NoQuery), 200, "text", MsgNoCode)]
    /\ UNCHANGED <<probe, ACCESS_TOKEN, refreshToken, photosTable, bot, replies>>

GrantResolved(r) ==
    /\ req[r].pc = "grant"
    /\ \/ /\ ACCESS_TOKEN < MaxRefresh
          /\ ACCESS_TOKEN' = ACCESS_TOKEN + 1
          /\ refreshToken' = TRUE
          /\ \/ req' = [req EXCEPT ![r] = Respond(@, 200, "text", MsgAuthorized)]
             \/ req' = [req EXCEPT ![r] = Throw(@, "saveRefreshToken")]
       \/ /\ req' = [req EXCEPT ![r] = Throw(@, "grant")]
          /\ UNCHANGED <<ACCESS_TOKEN, refreshToken>>
    /\ UNCHANGED <<probe, photosTable, bot, replies>>

(***************************************************************************)
(* The three Spotify-backed handlers start by awaiting                     *)
(* refreshAccessTokenIfNeeded(), lines 105, 158 and 184.                   *)
(***************************************************************************)
StartSpotify(r, route) ==
    /\ req[r].pc = "idle"
    /\ req' = [req EXCEPT ![r] = [NewRequest(route, NoQuery) EXCEPT !.pc = "refresh"]]
    /\ UNCHANGED <<probe, ACCESS_TOKEN, refreshToken, photosTable, bot, replies>>

\* Lines 53-62, and the handler's next call: getMyCurrentPlayingTrack,
\* getMyCurrentPlaybackState or getMe.
RefreshResolved(r) ==
    /\ req[r].pc = "refresh"
    /\ \/ /\ refreshToken
          /\ ACCESS_TOKEN < MaxRefresh
          /\ ACCESS_TOKEN' = ACCESS_TOKEN + 1
          /\ req' = [req EXCEPT ![r] =
                        [@ EXCEPT !.refreshed = TRUE, !.pc = "api", !.apiCalls = @ + 1]]
       \/ /\ req' = [req EXCEPT ![r] = RefreshRejected(@)]
          /\ UNCHANGED ACCESS_TOKEN
    /\ UNCHANGED <<probe, refreshToken, photosTable, bot, replies>>

(***************************************************************************)
(* /cover-64x64, lines 106-113.  The body of the playback state is null,   *)
(* or an object whose item is undefined or a track whose album has a list  *)
(* of images.                                                              *)
(***************************************************************************)
CoverUrls == {101, 102}

CoverBodies(urls) ==
    {[body |-> "null", item |-> "undefined", images |-> <<>>],
     [body |-> "object", item |-> "undefined", images |-> <<>>],
     [body |-> "object", item |-> "track", images |-> <<>>]}
    \cup {[body |-> "object", item |-> "track", images |-> <<u>>] : u \in urls}

CoverApiResolved(r, urls) ==
    /\ req[r].pc = "api"
    /\ req[r].route = "cover"
    /\ \/ req' = [req EXCEPT ![r] = Throw(@, "api")]
       \/ \E pb \in CoverBodies(urls) :
            req' = [req EXCEPT ![r] =
               IF pb.body = "null" \/ pb.item = "undefined"
               THEN Respond(@, 404, "text", MsgNotPlaying)
               ELSE IF pb.images = <<>>
               THEN Throw(@, "coverUrl")
               ELSE [@ EXCEPT !.url = pb.images[1], !.fetches = @ + 1, !.pc = "fetch"]]
    /\ UNCHANGED <<probe, ACCESS_TOKEN, refreshToken, photosTable, bot, replies>>

(***************************************************************************)
(* /id-playing, lines 159-172.                                             *)
(***************************************************************************)
PlaybackBodies ==
    {[body |-> "null", is_playing |-> "undefined", item |-> "undefined", id |-> "undefined"]}
    \cup [body : {"object"}, is_playing : {"true", "false", "undefined"},
          item : {"undefined", "trackA"}, id : {"undefined"}]

IdPlayingApiResolved(r) ==
    /\ req[r].pc = "api"
    /\ req[r].route = "idPlaying"
    /\ \/ req' = [req EXCEPT ![r] = Throw(@, "api")]
       \/ \E pb \in PlaybackBodies :
            LET songId == IF pb.item # "undefined" THEN pb.item ELSE pb.id
                s == [req[r] EXCEPT !.playback = pb]
            IN  req' = [req EXCEPT ![r] =
                   IF pb.body = "null" \/ pb.is_playing = "false"
                   THEN Respond(s, 200, "json", JsonId(""))
                   ELSE Respond(s, 200, "json", JsonId(songId))]
    /\ UNCHANGED <<probe, ACCESS_TOKEN, refreshToken, photosTable, bot, replies>>

(***************************************************************************)
(* /me, lines 185-190.                                                     *)
(***************************************************************************)
MeApiResolved(r) ==
    /\ req[r].pc = "api"
    /\ req[r].route = "me"
    /\ \/ req' = [req EXCEPT ![r] = Throw(@, "api")]
       \/ req' = [req EXCEPT ![r] =
                    Respond(@, 200, "json",
                            [display_name |-> "user", email |-> "mail", country |-> "ES"])]
    /\ UNCHANGED <<probe, ACCESS_TOKEN, refreshToken, photosTable, bot, replies>>

(***************************************************************************)
(* /get-photo, lines 237-263.                                              *)
(***************************************************************************)
StartGetPhoto(r, q) ==
    /\ req[r].pc = "idle"
    /\ LET id == parseInt(QueryId(q))
           s == [NewRequest("getPhoto", q) EXCEPT !.id = id]
       IN  req' = [req EXCEPT ![r] =
                     IF InvalidId(id)
                     THEN Respond(s, 400, "text", MsgInvalidId)
                     ELSE [s EXCEPT !.dbQueries = @ + 1, !.pc = "dbQuery"]]
    /\ UNCHANGED <<probe, ACCESS_TOKEN, refreshToken, photosTable, bot, replies>>

DbResolved(r) ==
    /\ req[r].pc = "dbQuery"
    /\ \/ req' = [req EXCEPT ![r] = Throw(@, "db")]
       \/ req' = [req EXCEPT ![r] =
                    Respond([@ EXCEPT !.failedAt = "db"], 500, "text", MsgPhotosError)]
       \/ LET photos == SelectLatestPhotos(photosTable)
              id == req[r].id.value
              s == [req[r] EXCEPT !.retrieved = Len(photos)]
          IN  req' = [req EXCEPT ![r] =
                        IF id >= Len(photos)
                        THEN Respond(s, 404, "text", MsgPhotoNotFound)
                        ELSE [s EXCEPT !.photo = photos[id + 1],
                                       !.url = photos[id + 1].photo_url,
                                       !.fetches = @ + 1,
                                       !.pc = "fetch"]]
    /\ UNCHANGED <<probe, ACCESS_TOKEN, refreshToken, photosTable, bot, replies>>

(***************************************************************************)
(* The image pipeline of both endpoints: lines 113-146 and 263-308.        *)
(***************************************************************************)
\* await fetch(url): node-fetch rejects on a network error only.
FetchResolved(r) ==
    /\ req[r].pc = "fetch"
    /\ \/ req' = [req EXCEPT ![r].pc = "arrayBuffer"]
       \/ req' = [req EXCEPT ![r] = Throw(@, "fetch")]
    /\ UNCHANGED <<probe, ACCESS_TOKEN, refreshToken, photosTable, bot, replies>>

\* await response.arrayBuffer(), then sharp(buffer).metadata() is called.
ArrayBufferResolved(r) ==
    /\ req[r].pc = "arrayBuffer"
    /\ \/ \E bytes \in {StoredImage(req[r].url), Garbage} :
            req' = StoreBuffer([req EXCEPT ![r].delivered = bytes, ![r].pc = "metadata"],
                               r, bytes)
       \/ req' = [req EXCEPT ![r] = Throw(@, "fetch")]
    /\ UNCHANGED <<probe, ACCESS_TOKEN, refreshToken, photosTable, bot, replies>>

\* await sharp(buffer).metadata(), then the resize pipeline is started:
\* lines 116-122, and lines 267-276 with the centre-square extract.
MetadataResolved(r) ==
    /\ req[r].pc = "metadata"
    /\ LET s == req[r]
           image == s.buffer
           region == IF s.route = "getPhoto"
                     THEN CropRegion(image.width, image.height)
                     ELSE NoRegion
       IN  req' = [req EXCEPT ![r] =
                     IF image.kind # "image"
                     THEN Throw(s, "decode")
                     ELSE [s EXCEPT !.pipeline = [image |-> image, region |-> region],
                                    !.conversions = @ + 1,
                                    !.pc = "toBuffer"]]
    /\ UNCHANGED <<probe, ACCESS_TOKEN, refreshToken, photosTable, bot, replies>>

\* await ...toBuffer(), the packing loop and res.json.
ToBufferResolved(r) ==
    /\ req[r].pc = "toBuffer"
    /\ LET s == req[r]
           p == s.pipeline
       IN  \/ /\ s.route = "cover"
              /\ req' = [req EXCEPT ![r] =
                    Respond(s, 200, "json",
                            [width |-> Dim, height |-> Dim,
                             data |-> PixelDataCover(p.image, p.region)])]
           \/ /\ s.route = "getPhoto"
              /\ req' = [req EXCEPT ![r] =
                    Respond(s, 200, "json",
                            [photo |-> [width |-> Dim, height |-> Dim,
                                        data |-> PixelDataPhoto(p.image, p.region)],
                             title |-> StripAccents(s.photo.title),
                             username |-> StripAccents(s.photo.username)])]
           \/ req' = [req EXCEPT ![r] = Throw(s, "resize")]
    /\ UNCHANGED <<probe, ACCESS_TOKEN, refreshToken, photosTable, bot, replies>>

\* The response has been delivered and the handler's locals are dropped.
Release(r) ==
    /\ req[r].pc = "done"
    /\ req' = [req EXCEPT ![r] = IdleSlot]
    /\ UNCHANGED <<probe, ACCESS_TOKEN, refreshToken, photosTable, bot, replies>>

(***************************************************************************)
(* Spec: one HTTP request at a time, over every id query string of up to   *)
(* MaxQueryLen characters and every table of up to MaxPhotos rows.         *)
(***************************************************************************)
Alphabet == {"0", "5", "-", "a", " "}

Strings(n) == UNION {[1..k -> Alphabet] : k \in 0..n}

Queries == {NoQuery} \cup {[present |-> TRUE, value |-> v] : v \in Strings(MaxQueryLen)}

Titles == <<<<"c", "a", "f", "é">>, <<"s", "o", "l">>>>

PhotoRow(k) ==
    [photo_url |-> k, title |-> Titles[(k % 2) + 1],
     username |-> <<"J", "o", "s", "é">>, created_at |-> k]

TableOf(n) == {PhotoRow(k) : k \in 1..n}

Routes == {"cover", "idPlaying", "me"}

Init ==
    /\ probe = NoProbe
    /\ req = [r \in {1} |-> IdleSlot]
    /\ ACCESS_TOKEN = 0
    /\ refreshToken \in BOOLEAN
    /\ photosTable \in {TableOf(n) : n \in 0..MaxPhotos}
    /\ bot = BotIdle
    /\ replies = <<>>

Next ==
    \/ \E r \in DOMAIN req, hasCode \in BOOLEAN : StartCallback(r, hasCode)
    \/ \E r \in DOMAIN req : GrantResolved(r)
    \/ \E r \in DOMAIN req, route \in Routes : StartSpotify(r, route)
    \/ \E r \in DOMAIN req : RefreshResolved(r)
    \/ \E r \in DOMAIN req : CoverApiResolved(r, CoverUrls)
    \/ \E r \in DOMAIN req : IdPlayingApiResolved(r)
    \/ \E r \in DOMAIN req : MeApiResolved(r)
    \/ \E r \in DOMAIN req, q \in Queries : StartGetPhoto(r, q)
    \/ \E r \in DOMAIN req : DbResolved(r)
    \/ \E r \in DOMAIN req : FetchResolved(r)
    \/ \E r \in DOMAIN req : ArrayBufferResolved(r)
    \/ \E r \in DOMAIN req : MetadataResolved(r)
    \/ \E r \in DOMAIN req : ToBufferResolved(r)
    \/ \E r \in DOMAIN req : Release(r)

Spec == Init /\ [][Next]_vars

(***************************************************************************)
(* SpecConc: two requests in flight at once, interleaved at their awaits.  *)
(* The table holds two photos and a refresh token is loaded.               *)
(***************************************************************************)
ConcSlots == {1, 2}

ConcQueries == {[present |-> TRUE, value |-> <<"0">>], [present |-> TRUE, value |-> <<"1">>]}

ConcCoverUrls == {101}

InitConc ==
    /\ probe = NoProbe
    /\ req = [r \in ConcSlots |-> IdleSlot]
    /\ ACCESS_TOKEN = 0
    /\ refreshToken = TRUE
    /\ photosTable = TableOf(2)
    /\ bot = BotIdle
    /\ replies = <<>>

NextConc ==
    \/ \E r \in DOMAIN req, route \in Routes : StartSpotify(r, route)
    \/ \E r \in DOMAIN req : RefreshResolved(r)
    \/ \E r \in DOMAIN req : CoverApiResolved(r, ConcCoverUrls)
    \/ \E r \in DOMAIN req : IdPlayingApiResolved(r)
    \/ \E r \in DOMAIN req : MeApiResolved(r)
    \/ \E r \in DOMAIN req, q \in ConcQueries : StartGetPhoto(r, q)
    \/ \E r \in DOMAIN req : DbResolved(r)
    \/ \E r \in DOMAIN req : FetchResolved(r)
    \/ \E r \in DOMAIN req : ArrayBufferResolved(r)
    \/ \E r \in DOMAIN req : MetadataResolved(r)
    \/ \E r \in DOMAIN req : ToBufferResolved(r)
    \/ \E r \in DOMAIN req : Release(r)

SpecConc == InitConc /\ [][NextConc]_vars

(***************************************************************************)
(* The Telegram photo handler, lines 333-392.  One message is handled at a *)
(* time; uploaded, insertFailed and failedAt record what happened to the   *)
(* message handled last.                                                   *)
(***************************************************************************)
MsgUploadError == "Error al subir la imagen a Supabase: "
MsgPublicUrlError == "Error al obtener la URL pública: "
MsgUploaded == "Imagen subida correctamente"   \* after a check mark, line 387
MsgBotError == "Ocurrió un error al procesar la foto."

Captions == {<<>>, <<"s", "o", "l">>}

NextCreatedAt(table) ==
    IF table = {} THEN 1
    ELSE 1 + (CHOOSE t \in {x.created_at : x \in table} :
                 \A x \in table : x.created_at <= t)

NewMessage(n, caption) ==
    [pc |-> "getFile", n |-> n, caption |-> caption, fileName |-> 0,
     uploaded |-> FALSE, insertFailed |-> FALSE, inserted |-> FALSE,
     failedAt |-> "none"]

\* The handler returns, or ends, right after every bot.sendMessage.
Returned(b) == [b EXCEPT !.pc = "idle"]

\* uuidv4(): a name no stored file has.
FreshFileName(n) == MaxPhotos + n

\* The catch block of lines 388-391.
BotCatch(b, stage) == [b EXCEPT !.pc = "idle", !.failedAt = stage]

\* bot.on('photo'): the handler is entered and bot.getFile(fileId) is called.
PhotoReceived(caption) ==
    /\ bot.pc = "idle"
    /\ Len(replies) < MaxMsgs
    /\ bot' = NewMessage(Len(replies) + 1, caption)
    /\ UNCHANGED <<probe, req, ACCESS_TOKEN, refreshToken, photosTable, replies>>

\* await bot.getFile(fileId), then axios.get(fileUrl) is called.
GetFileResolved ==
    /\ bot.pc = "getFile"
    /\ \/ bot' = [bot EXCEPT !.pc = "download"] /\ UNCHANGED replies
       \/ bot' = BotCatch(bot, "getFile") /\ replies' = Append(replies, MsgBotError)
    /\ UNCHANGED <<probe, req, ACCESS_TOKEN, refreshToken, photosTable>>

\* await axios.get(...), then a fresh file name is made and the upload is called.
DownloadResolved ==
    /\ bot.pc = "download"
    /\ \/ bot' = [bot EXCEPT !.pc = "upload", !.fileName = FreshFileName(bot.n)] /\ UNCHANGED replies
       \/ bot' = BotCatch(bot, "download") /\ replies' = Append(replies, MsgBotError)
    /\ UNCHANGED <<probe, req, ACCESS_TOKEN, refreshToken, photosTable>>

\* await supabase.storage.from(BUCKET_NAME).upload(...), lines 354-365.
UploadResolved ==
    /\ bot.pc = "upload"
    /\ \/ bot' = [bot EXCEPT !.pc = "publicUrl", !.uploaded = TRUE] /\ UNCHANGED replies
       \/ /\ bot' = Returned([bot EXCEPT !.failedAt = "upload"])
          /\ replies' = Append(replies, MsgUploadError)
       \/ bot' = BotCatch(bot, "upload") /\ replies' = Append(replies, MsgBotError)
    /\ UNCHANGED <<probe, req, ACCESS_TOKEN, refreshToken, photosTable>>

\* await supabase.storage.from(BUCKET_NAME).getPublicUrl(fileName), lines 367-377,
\* then the insert is called.
PublicUrlResolved ==
    /\ bot.pc = "publicUrl"
    /\ \/ bot' = [bot EXCEPT !.pc = "insert"] /\ UNCHANGED replies
       \/ /\ bot' = Returned([bot EXCEPT !.failedAt = "publicUrl"])
          /\ replies' = Append(replies, MsgPublicUrlError)
       \/ bot' = BotCatch(bot, "publicUrl") /\ replies' = Append(replies, MsgBotError)
    /\ UNCHANGED <<probe, req, ACCESS_TOKEN, refreshToken, photosTable>>

\* await supabase.from('photos').insert(...), lines 380-387: an insertError is
\* logged and the handler goes on to the success message.
InsertResolved ==
    /\ bot.pc = "insert"
    /\ \/ /\ photosTable' = photosTable \cup
                {[photo_url |-> bot.fileName, title |-> bot.caption,
                  username |-> <<"J", "o", "s", "é">>,
                  created_at |-> NextCreatedAt(photosTable)]}
          /\ bot' = Returned([bot EXCEPT !.inserted = TRUE])
          /\ replies' = Append(replies, MsgUploaded)
       \/ /\ bot' = Returned([bot EXCEPT !.insertFailed = TRUE, !.failedAt = "insert"])
          /\ replies' = Append(replies, MsgUploaded)
          /\ UNCHANGED photosTable
       \/ /\ bot' = BotCatch(bot, "insert")
          /\ replies' = Append(replies, MsgBotError)
          /\ UNCHANGED photosTable
    /\ UNCHANGED <<probe, req, ACCESS_TOKEN, refreshToken>>

InitBot ==
    /\ probe = NoProbe
    /\ req = <<>>
    /\ ACCESS_TOKEN = 0
    /\ refreshToken = FALSE
    /\ photosTable \in {TableOf(n) : n \in 0..MaxPhotos}
    /\ bot = BotIdle
    /\ replies = <<>>

NextBot ==
    \/ \E caption \in Captions : PhotoReceived(caption)
    \/ GetFileResolved
    \/ DownloadResolved
    \/ UploadResolved
    \/ PublicUrlResolved
    \/ InsertResolved

SpecBot == InitBot /\ [][NextBot]_vars

(***************************************************************************)
(* C1: for the channel triples tried, both endpoints pack (R, G, B) as     *)
(* the top 5 bits of B in bits 15-11, the top 6 bits of R in bits 10-5 and *)
(* the top 5 bits of G in bits 4-0, the fields not overlapping; white is   *)
(* 0xFFFF, black 0x0000 and pure blue 0xF800.                              *)
(***************************************************************************)
FieldValue(r, g, b) == (b \div 8) * 2048 + (r \div 4) * 32 + (g \div 8)

GridOf(s) == IF s.route = "cover" THEN Body(s) ELSE Body(s).photo

ReturnsGrid(s) ==
    /\ s.route \in {"cover", "getPhoto"}
    /\ s.pc = "done"
    /\ Len(s.responses) > 0
    /\ Status(s) = 200

GridIs64x64Packed ==
    \A r \in DOMAIN req :
        ReturnsGrid(req[r]) =>
            LET s == req[r]
                g == GridOf(s)
                byte(i) == ResizedByte(s.delivered, s.pipeline.region, i)
            IN  /\ Len(s.responses) = 1
                /\ g.width = 64 /\ g.height = 64
                /\ DOMAIN g.data = 0..63
                /\ \A y \in 0..63 :
                      /\ DOMAIN g.data[y] = 0..63
                      /\ \A x \in 0..63 :
                            /\ g.data[y][x] \in 0..65535
                            /\ g.data[y][x] =
                                 FieldValue(byte((y * 64 + x) * 4),
                                            byte((y * 64 + x) * 4 + 1),
                                            byte((y * 64 + x) * 4 + 2))

GridOfWideCover ==
    \E r \in DOMAIN req :
        /\ ReturnsGrid(req[r])
        /\ req[r].route = "cover"
        /\ req[r].delivered.width = 100 /\ req[r].delivered.height = 50
        /\ DOMAIN Body(req[r]).data = 0..63

(***************************************************************************)
(* C4: /get-photo answers 400, without a database query or an image fetch, *)
(* whenever id is not a non-negative integer (missing, negative, or a      *)
(* string that is not wholly an integer literal).                          *)
(***************************************************************************)
IsIntegerLiteral(str) ==
    LET t == TrimStart(str)
        u == IF t # <<>> /\ Head(t) \in {"+", "-"} THEN Tail(t) ELSE t
    IN  u # <<>> /\ \A i \in 1..Len(u) : IsDigit(u[i])

IsNonNegativeInteger(q) ==
    /\ q.present
    /\ IsIntegerLiteral(q.value)
    /\ parseInt(q.value).value >= 0

BadIdRejected ==
    \A r \in DOMAIN req :
        (req[r].route = "getPhoto" /\ ~IsNonNegativeInteger(req[r].query)) =>
            /\ req[r].pc = "done"
            /\ Len(req[r].responses) = 1
            /\ Status(req[r]) = 400
            /\ req[r].dbQueries = 0
            /\ req[r].fetches = 0

(***************************************************************************)
(* C5 as claimed: with a valid id, an id at or beyond the number of        *)
(* records retrieved (so any id >= 5) is answered 404 with no image fetch. *)
(***************************************************************************)
PastQuery(s) ==
    /\ s.route = "getPhoto"
    /\ ~InvalidId(s.id)
    /\ s.pc # "dbQuery"

NewerThan(row) == {x \in photosTable : x.created_at > row.created_at}

OutOfRangeIs404 ==
    \A r \in DOMAIN req :
        (PastQuery(req[r]) /\ req[r].id.value >= Min(5, Cardinality(photosTable))) =>
            /\ req[r].pc = "done"
            /\ Len(req[r].responses) = 1
            /\ Status(req[r]) = 404
            /\ req[r].fetches = 0

(***************************************************************************)
(* C5 as amended: when the query succeeds it retrieves the at most 5       *)
(* newest rows; an id at or beyond their number is answered 404 with no    *)
(* fetch or conversion, any other id selects the row with exactly id newer *)
(* rows; when the query fails the answer is 500 with no fetch or           *)
(* conversion.                                                             *)
(***************************************************************************)
PhotoIndexedByRecency ==
    \A r \in DOMAIN req :
        PastQuery(req[r]) =>
            LET s == req[r]
            IN  IF s.retrieved < 0
                THEN /\ s.pc = "done"
                     /\ Len(s.responses) = 1
                     /\ Status(s) = 500
                     /\ s.fetches = 0 /\ s.conversions = 0
                ELSE /\ s.retrieved <= 5
                     /\ s.retrieved <= Cardinality(photosTable)
                     /\ (s.retrieved = 5 \/ s.retrieved = Cardinality(photosTable))
                     /\ IF s.id.value >= s.retrieved
                        THEN /\ s.pc = "done"
                             /\ Len(s.responses) = 1
                             /\ Status(s) = 404
                             /\ s.fetches = 0 /\ s.conversions = 0
                        ELSE /\ s.photo \in photosTable
                             /\ Cardinality(NewerThan(s.photo)) = s.id.value
                             /\ s.url = s.photo.photo_url
                             /\ s.fetches = 1

IdFiveOfFivePhotos ==
    \E r \in DOMAIN req :
        /\ PastQuery(req[r])
        /\ req[r].id.value = 5
        /\ Cardinality(photosTable) = 5
        /\ req[r].retrieved = 5
        /\ req[r].pc = "done"
        /\ Status(req[r]) = 404

(***************************************************************************)
(* C6: /id-playing answers 200 with { "id": "" } for every playback state  *)
(* that means nothing is playing: no body, an empty body, or is_playing    *)
(* false.                                                                  *)
(***************************************************************************)
NothingPlaying(pb) ==
    \/ pb.body = "null"
    \/ pb.body = "object" /\ pb.is_playing = "false"
    \/ pb.body = "object" /\ pb.is_playing = "undefined" /\ pb.item = "undefined"

NothingPlayingGivesEmptyId ==
    \A r \in DOMAIN req :
        (req[r].route = "idPlaying" /\ NothingPlaying(req[r].playback)) =>
            /\ req[r].pc = "done"
            /\ Len(req[r].responses) = 1
            /\ Status(req[r]) = 200
            /\ Body(req[r]) = "{\"id\":\"\"}"

(***************************************************************************)
(* C7: every upload error and every insert error of the photo handler is   *)
(* answered with a text saying it failed, and the success text is sent     *)
(* only when the upload and the insert both succeeded.                     *)
(***************************************************************************)
Handled == bot.pc = "idle" /\ replies # <<>>

LastReply == replies[Len(replies)]

FailuresReportedToChat ==
    Handled =>
        /\ (bot.failedAt = "upload" \/ bot.insertFailed) => LastReply # MsgUploaded
        /\ LastReply = MsgUploaded => (bot.uploaded /\ bot.inserted)

(***************************************************************************)
(* C8: when the fetch of the image or its decoding or resizing fails on    *)
(* /cover-64x64 or /get-photo, the request ends with exactly one response, *)
(* a 500 with a text message and no pixel grid, and nothing is retried.    *)
(***************************************************************************)
ImageFailed(s) ==
    /\ s.route \in {"cover", "getPhoto"}
    /\ s.failedAt \in {"fetch", "decode", "resize"}

ImageFailureIsOne500 ==
    \A r \in DOMAIN req :
        ImageFailed(req[r]) =>
            /\ req[r].pc = "done"
            /\ Len(req[r].responses) = 1
            /\ Status(req[r]) = 500
            /\ req[r].responses[1].type = "text"
            /\ Body(req[r]) \in {MsgCoverError, MsgRequestError}
            /\ req[r].fetches = 1
            /\ req[r].conversions <= 1

CoverDecodeFailed ==
    \E r \in DOMAIN req :
        /\ req[r].route = "cover"
        /\ req[r].failedAt = "decode"
        /\ req[r].delivered = Garbage
        /\ req[r].pc = "done"

(***************************************************************************)
(* C9: a request converts at most one image, and under every interleaving  *)
(* of two requests the grid a request returns is the grid of the bytes     *)
(* delivered to that request, converted in that request's crop mode alone. *)
(***************************************************************************)
AllUrls == CoverUrls \cup (1..(MaxPhotos + 1))

GridAlone ==
    [u \in AllUrls |->
        [cover |-> PixelDataCover(StoredImage(u), NoRegion),
         getPhoto |-> PixelDataPhoto(StoredImage(u),
                         CropRegion(StoredImage(u).width, StoredImage(u).height))]]

GridIsOwnConversion ==
    \A r \in DOMAIN req :
        /\ req[r].conversions <= 1
        /\ ReturnsGrid(req[r]) =>
              /\ req[r].delivered.kind = "image"
              /\ GridOf(req[r]).data = GridAlone[req[r].delivered.seed][req[r].route]

TwoGridsAtOnce ==
    /\ ReturnsGrid(req[1]) /\ req[1].route = "getPhoto"
    /\ ReturnsGrid(req[2]) /\ req[2].route = "getPhoto"
    /\ req[1].delivered # req[2].delivered

(***************************************************************************)
(* C10: on /cover-64x64, /id-playing and /me the Spotify call of a request *)
(* is made only after that request's token refresh succeeded; a failed     *)
(* refresh leaves ACCESS_TOKEN as it was and the request is answered 500   *)
(* with a generic message and makes no Spotify call.                       *)
(***************************************************************************)
RefreshOrdered(s) ==
    /\ s.apiCalls > 0 => s.refreshed
    /\ s.failedAt = "refresh" =>
          /\ s.apiCalls = 0
          /\ s.pc = "done"
          /\ Len(s.responses) = 1
          /\ Status(s) = 500
          /\ Body(s) \in {MsgCoverError, MsgIdPlayingError, MsgMeError}

RefreshBeforeSpotifyCall ==
    /\ [](\A r \in DOMAIN req : req[r].route \in Routes => RefreshOrdered(req[r]))
    /\ [][\A r \in DOMAIN req :
            (req[r].pc = "refresh" /\ req'[r].failedAt = "refresh")
                => ACCESS_TOKEN' = ACCESS_TOKEN]_vars

RefreshFailedAfterOthers ==
    \E r \in DOMAIN req, q \in DOMAIN req :
        /\ req[r].route \in Routes
        /\ req[r].failedAt = "refresh"
        /\ Status(req[r]) = 500
        /\ ACCESS_TOKEN > 0
        /\ req[q].refreshed /\ req[q].apiCalls = 1

(***************************************************************************)
(* C3: in centre-square crop mode the region has side min(width, height)   *)
(* and top-left corner (floor((width-size)/2), floor((height-size)/2)); it *)
(* lies inside the image, the offset on the shorter axis is 0, and a       *)
(* 100 x 50 image gives size 50, left 25, top 0.                           *)
(***************************************************************************)
CropIsCentredSquare ==
    (probe.kind = "image" /\ probe.cropped) =>
        LET w == probe.width
            h == probe.height
            g == probe.region
        IN  /\ g.size = (IF w <= h THEN w ELSE h)
            /\ 2 * g.left <= w - g.size /\ w - g.size <= 2 * g.left + 1
            /\ 2 * g.top <= h - g.size /\ h - g.size <= 2 * g.top + 1
            /\ g.left >= 0 /\ g.top >= 0
            /\ g.left + g.size <= w /\ g.top + g.size <= h
            /\ (w <= h => g.left = 0)
            /\ (h <= w => g.top = 0)
            /\ (w = 100 /\ h = 50) => (g.size = 50 /\ g.left = 25 /\ g.top = 0)

CroppedWideImage ==
    /\ probe.kind = "image" /\ probe.cropped
    /\ probe.width = 100 /\ probe.height = 50
    /\ probe.region = [size |-> 50, left |-> 25, top |-> 0]

====
